---------------------------- MODULE Spec2Model ----------------------------
(***************************************************************************)
(* A model of the DICOM sorter's core (dicomsorter/controls/dicom.py):     *)
(* clean_text, create_path, save_dicom_file, find_dicoms_in_folder and the *)
(* sort_dicoms generator.                                                  *)
(*                                                                         *)
(* Text is a sequence of one-character strings, so that translate(),       *)
(* lower(), str.format() and the pathlib join are computed character by    *)
(* character.  Paths follow PurePosixPath.  Python values are records      *)
(* [kind, chars, num, tenths]; a call that may raise returns               *)
(* [exc, val], exc = "none" meaning a normal return.                       *)
(***************************************************************************)
EXTENDS Integers, Sequences, FiniteSets, TLC

VARIABLES
    \* --- a call of clean_text and a second call on its result
    ct_text, ct_forbidden, ct_result, ct_again,
    \* --- a call of create_path
    cp_dicom, cp_destination, cp_folder, cp_file, cp_result,
    \* --- a call of find_dicoms_in_folder
    ff_folder, ff_allowed, ff_result,
    \* --- the main window (MainView)
    source_entry,            \* the text of the source folder field
    destination_entry,       \* the text of the destination folder field
    folder_structure_entry,  \* the text of the folder name structure field
    file_structure_entry,    \* the text of the file name structure field
    progress_bars,           \* the progress bars created, TRUE while not destroyed;
                             \* self._progress_bar is the last one
    sort_done,               \* for each sort started: its generator was exhausted
    idle,                    \* the number of after_idle callbacks pending
    dialogs_open,            \* the completion dialogs on screen
    dialogs_shown,           \* the completion dialogs shown so far
    warnings,                \* the "Input Required" warnings shown so far
    stale_pulls,             \* the next() calls made on an exhausted generator
    redundant_destroys,      \* the destroy() calls made on a destroyed bar
    callback_errors,         \* the exceptions that left a handler
    \* --- a run of the sort_dicoms generator and the file systems it touches
    tree,                 \* the entries the recursive glob enumerates, in order
    destination_path,     \* the destination root
    folder_structure,     \* the folder template passed (or None)
    file_name_structure,  \* the file-name template passed (or None)
    pc,                   \* "created", "suspended", "finished", "raised"
    dicom_files,          \* the list built at line 171 (indices into tree)
    total,                \* len(dicom_files), line 180
    i,                    \* the loop index of the last file taken up
    yielded,              \* the progress values handed to the caller so far
    pulls,                \* the number of next() calls made so far
    reads,                \* the files read_dicom_file was called on, in order
    saves,                \* the files whose save_as call was reached, in order
    dirs,                 \* the directories created under the destination
    disk,                 \* the destination files: path -> source file
    log,                  \* the messages printed
    exc                   \* the exception that left the generator, or "none"

vars_ct == <<ct_text, ct_forbidden, ct_result, ct_again>>
vars_cp == <<cp_dicom, cp_destination, cp_folder, cp_file, cp_result>>
vars_gen == <<tree, destination_path, folder_structure, file_name_structure, pc,
              dicom_files, total, i, yielded, pulls, reads, saves, dirs, disk,
              log, exc>>
vars_ff == <<ff_folder, ff_allowed, ff_result>>
vars_view == <<source_entry, destination_entry, folder_structure_entry,
               file_structure_entry, progress_bars, sort_done, idle, dialogs_open,
               dialogs_shown, warnings, stale_pulls, redundant_destroys,
               callback_errors>>
vars == <<vars_ct, vars_cp, vars_ff, vars_view, vars_gen>>

(***************************************************************************)
(* Bounds of the model.                                                    *)
(***************************************************************************)
MaxTextLen == 3
MaxFiles == 3
MaxPresses == 2

(***************************************************************************)
(* Python values and results.                                              *)
(***************************************************************************)
StrV(c) == [kind |-> "str", chars |-> c, num |-> 0, tenths |-> 0]
IntV(n) == [kind |-> "int", chars |-> <<>>, num |-> n, tenths |-> 0]
FloatV(n, t) == [kind |-> "float", chars |-> <<>>, num |-> n, tenths |-> t]
NoneV == [kind |-> "none", chars |-> <<>>, num |-> 0, tenths |-> 0]

Return(v) == [exc |-> "none", val |-> v]
Raise(e) == [exc |-> e, val |-> <<>>]

Range(s) == {s[k] : k \in DOMAIN s}

UpperChars == <<"A", "B", "C", "D", "E", "F", "G", "H", "I", "J", "K", "L", "M", "N", "O", "P", "Q", "R", "S", "T", "U", "V", "W", "X", "Y", "Z">>
LowerChars == <<"a", "b", "c", "d", "e", "f", "g", "h", "i", "j", "k", "l", "m", "n", "o", "p", "q", "r", "s", "t", "u", "v", "w", "x", "y", "z">>
DigitChars == <<"0", "1", "2", "3", "4", "5", "6", "7", "8", "9">>

IsUpper(c) == c \in Range(UpperChars)

\* str.lower() on one (ASCII) character.
LowerChar(c) ==
    IF IsUpper(c)
    THEN LowerChars[CHOOSE k \in DOMAIN UpperChars : UpperChars[k] = c]
    ELSE c

\* str.lower()
Lower(text) == [k \in DOMAIN text |-> LowerChar(text[k])]

RECURSIVE NatToStr(_)
NatToStr(n) ==
    IF n < 10 THEN <<DigitChars[n + 1]>>
    ELSE NatToStr(n \div 10) \o <<DigitChars[(n % 10) + 1]>>

\* str(): the textual representation of a value.
Str(v) ==
    CASE v.kind = "str" -> v.chars
      [] v.kind = "int" -> IF v.num < 0 THEN <<"-">> \o NatToStr(-v.num)
                           ELSE NatToStr(v.num)
      [] v.kind = "float" -> NatToStr(v.num) \o <<".">> \o NatToStr(v.tenths)
      [] v.kind = "none" -> <<"N", "o", "n", "e">>

\* str.translate(table), the table mapping each of the characters in `chars`
\* to an underscore.
Translate(text, chars) ==
    [k \in DOMAIN text |-> IF text[k] \in chars THEN "_" ELSE text[k]]

(***************************************************************************)
(* clean_text.  A forbidden-symbol argument is [is_none, symbols], symbols *)
(* a set of strings; ord(c) raises TypeError on a string that is not one   *)
(* character long.                                                         *)
(***************************************************************************)
NoSymbols == [is_none |-> TRUE, symbols |-> {}]
Symbols(S) == [is_none |-> FALSE, symbols |-> S]

DefaultForbidden ==
    {<<"*">>, <<".">>, <<",">>, <<"\"">>, <<"\\">>, <<"/">>, <<"|">>, <<"[">>, <<"]">>, <<":">>, <<";">>, <<" ">>}

\* str(text).translate(table).swapcase(): lower() mistaken for swapcase().
SwapChar(c) ==
    IF IsUpper(c) THEN LowerChar(c)
    ELSE IF c \in Range(LowerChars)
         THEN UpperChars[CHOOSE k \in DOMAIN LowerChars : LowerChars[k] = c]
         ELSE c

clean_text_swapcase(text, forbidden_symbols) ==
    LET fs == IF forbidden_symbols.is_none THEN DefaultForbidden
              ELSE forbidden_symbols.symbols
        t == Translate(Str(text), {s[1] : s \in fs})
    IN  IF \E s \in fs : Len(s) # 1 THEN Raise("TypeError")
        ELSE Return([k \in DOMAIN t |-> SwapChar(t[k])])

\* translate() left out: the text is only lowered.
clean_text_no_translate(text, forbidden_symbols) ==
    LET fs == IF forbidden_symbols.is_none THEN DefaultForbidden
              ELSE forbidden_symbols.symbols
    IN  IF \E s \in fs : Len(s) # 1 THEN Raise("TypeError")
        ELSE Return(Lower(Str(text)))

clean_text(text, forbidden_symbols) ==
    LET fs == IF forbidden_symbols.is_none THEN DefaultForbidden
              ELSE forbidden_symbols.symbols
    IN  IF \E s \in fs : Len(s) # 1 THEN Raise("TypeError")
        ELSE Return(Lower(Translate(Str(text), {s[1] : s \in fs})))

(***************************************************************************)
(* str.format with the tags as keywords, for templates whose replacement  *)
(* fields are plain names (no conversion, format spec, attribute, index). *)
(***************************************************************************)
\* The position of the first "}" after position k, or 0.
FirstClose(t, k) ==
    IF \E j \in (k + 1)..Len(t) : t[j] = "}"
    THEN CHOOSE j \in (k + 1)..Len(t) :
             t[j] = "}" /\ \A m \in (k + 1)..(j - 1) : t[m] # "}"
    ELSE 0

RECURSIVE FormatFrom(_, _, _, _)
FormatFrom(t, k, tags, acc) ==
    IF k > Len(t) THEN Return(acc)
    ELSE IF t[k] = "{" THEN
        IF k < Len(t) /\ t[k + 1] = "{"
        THEN FormatFrom(t, k + 2, tags, acc \o <<"{">>)
        ELSE LET j == FirstClose(t, k)
                 name == SubSeq(t, k + 1, j - 1)
             IN  IF j = 0 THEN Raise("ValueError")
                 ELSE IF name = <<>> THEN Raise("IndexError")
                 ELSE IF name \notin DOMAIN tags THEN Raise("KeyError")
                 ELSE FormatFrom(t, j + 1, tags, acc \o tags[name])
    ELSE IF t[k] = "}" THEN
        IF k < Len(t) /\ t[k + 1] = "}"
        THEN FormatFrom(t, k + 2, tags, acc \o <<"}">>)
        ELSE Raise("ValueError")
    ELSE FormatFrom(t, k + 1, tags, acc \o <<t[k]>>)

Format(t, tags) == FormatFrom(t, 1, tags, <<>>)

(***************************************************************************)
(* pathlib (PurePosixPath): a path is [anchor, parts], parts a sequence of *)
(* segments.                                                               *)
(***************************************************************************)
RECURSIVE SplitFrom(_, _, _, _)
SplitFrom(s, k, cur, acc) ==
    IF k > Len(s) THEN Append(acc, cur)
    ELSE IF s[k] = "/" THEN SplitFrom(s, k + 1, <<>>, Append(acc, cur))
    ELSE SplitFrom(s, k + 1, Append(cur, s[k]), acc)

IsSegment(x) == x # <<>> /\ x # <<".">>

\* Path(s)
ParsePath(s) ==
    [anchor |-> IF Len(s) >= 1 /\ s[1] = "/"
                THEN IF Len(s) >= 2 /\ s[2] = "/" /\ ~(Len(s) >= 3 /\ s[3] = "/")
                     THEN "//" ELSE "/"
                ELSE "",
     parts |-> SelectSeq(SplitFrom(s, 1, <<>>, <<>>), IsSegment)]

\* p / s: an absolute right operand replaces the left one.
JoinPath(p, s) ==
    LET q == ParsePath(s)
    IN  IF q.anchor # "" THEN q
        ELSE [anchor |-> p.anchor, parts |-> p.parts \o q.parts]

\* p.parent
Parent(p) ==
    IF p.parts = <<>> THEN p
    ELSE [anchor |-> p.anchor, parts |-> SubSeq(p.parts, 1, Len(p.parts) - 1)]

\* p and every ancestor of p that has at least one segment.
WithAncestors(p) ==
    {[anchor |-> p.anchor, parts |-> SubSeq(p.parts, 1, n)] : n \in 1..Len(p.parts)}

(***************************************************************************)
(* create_path.  A dataset is a function from the keywords it holds to     *)
(* their values.                                                           *)
(***************************************************************************)
Modality == <<"M", "o", "d", "a", "l", "i", "t", "y">>
InstanceNumber == <<"I", "n", "s", "t", "a", "n", "c", "e", "N", "u", "m", "b", "e", "r">>
KVP == <<"K", "V", "P">>
SliceThickness == <<"S", "l", "i", "c", "e", "T", "h", "i", "c", "k", "n", "e", "s", "s">>
ConvolutionKernel == <<"C", "o", "n", "v", "o", "l", "u", "t", "i", "o", "n", "K", "e", "r", "n", "e", "l">>
PatientID == <<"P", "a", "t", "i", "e", "n", "t", "I", "D">>
StudyDate == <<"S", "t", "u", "d", "y", "D", "a", "t", "e">>

TagNames ==
    {Modality, InstanceNumber, KVP, SliceThickness, ConvolutionKernel, PatientID,
     StudyDate}

NA == StrV(<<"N", "A">>)

DefaultFolderStructure ==
    <<"{", "P", "a", "t", "i", "e", "n", "t", "I", "D", "}", "/", "{", "S", "t", "u", "d", "y", "D", "a", "t", "e", "}", "/", "{", "K", "V", "P", "}", "/", "{", "S", "l", "i", "c", "e", "T", "h", "i", "c", "k", "n", "e", "s", "s", "}", "/", "{", "C", "o", "n", "v", "o", "l", "u", "t", "i", "o", "n", "K", "e", "r", "n", "e", "l", "}">>
DefaultFileNameStructure ==
    <<"{", "M", "o", "d", "a", "l", "i", "t", "y", "}", "_", "{", "I", "n", "s", "t", "a", "n", "c", "e", "N", "u", "m", "b", "e", "r", "}", "_", "{", "K", "V", "P", "}", "_", "{", "S", "l", "i", "c", "e", "T", "h", "i", "c", "k", "n", "e", "s", "s", "}", "_", "{", "C", "o", "n", "v", "o", "l", "u", "t", "i", "o", "n", "K", "e", "r", "n", "e", "l", "}", ".", "d", "c", "m">>

\* dicom.get(key): the default left out, so that an absent key gives None.
GetWithoutDefault(dicom, key, default) ==
    IF key \in DOMAIN dicom THEN dicom[key] ELSE NoneV

\* dicom.get(key, default)
Get(dicom, key, default) == IF key \in DOMAIN dicom THEN dicom[key] ELSE default

\* The values put in the dictionary raw, clean_text left out.
TagsUncleaned(dicom) == [n \in TagNames |-> Str(Get(dicom, n, NA))]

\* The tags dictionary of lines 98-106.
Tags(dicom) == [n \in TagNames |-> clean_text(Get(dicom, n, NA), NoSymbols).val]

create_path(dicom, destination_folder, folder_struct, file_name_struct) ==
    LET fs == IF folder_struct.kind = "none" THEN DefaultFolderStructure
              ELSE folder_struct.chars
        ns == IF file_name_struct.kind = "none" THEN DefaultFileNameStructure
              ELSE file_name_struct.chars
        tags == Tags(dicom)
        folder == Format(fs, tags)
        file == Format(ns, tags)
    IN  IF folder.exc # "none" THEN Raise(folder.exc)
        ELSE IF file.exc # "none" THEN Raise(file.exc)
        ELSE Return(JoinPath(JoinPath(destination_folder, folder.val), file.val))

(***************************************************************************)
(* The source tree.  An entry is what rglob meets: its suffix, whether it  *)
(* is a regular file, and how the operations on it turn out: whether       *)
(* dcmread raises, the dataset read, its transfer syntax ("plain",         *)
(* "compressed", or "none" when file_meta holds no TransferSyntaxUID),     *)
(* and whether decompress(), the mkdir of its target's parent and          *)
(* save_as succeed.                                                        *)
(***************************************************************************)
Entry(sfx, isf, rd, ds, meta, dec, mk, sv) ==
    [suffix |-> sfx, is_file |-> isf, readable |-> rd, dicom |-> ds,
     meta |-> meta, decompress_ok |-> dec, mkdir_ok |-> mk, save_ok |-> sv]

ScenarioDataset ==
    (PatientID :> StrV(<<"P", "1">>)) @@ (StudyDate :> StrV(<<"2", "0", "2", "4", "0", "1", "0", "1">>)) @@
    (Modality :> StrV(<<"C", "T">>)) @@ (InstanceNumber :> IntV(3)) @@ (KVP :> IntV(120)) @@
    (SliceThickness :> FloatV(1, 0)) @@ (ConvolutionKernel :> StrV(<<"S", "T", "A", "N", "D", "A", "R", "D">>))

SlashDataset == (PatientID :> StrV(<<"P", "/", "1">>)) @@ (InstanceNumber :> IntV(7))

EmptyDataset == (Modality :> StrV(<<"M", "R">>))

EntryKinds ==
    {Entry(<<".", "d", "c", "m">>, TRUE, TRUE, ScenarioDataset, "plain", TRUE, TRUE, TRUE),
     Entry(<<>>, TRUE, TRUE, SlashDataset, "compressed", TRUE, TRUE, TRUE),
     Entry(<<".", "D", "C", "M">>, TRUE, TRUE, ScenarioDataset, "compressed", FALSE, TRUE, TRUE),
     Entry(<<".", "d", "i", "c", "o", "m">>, TRUE, FALSE, EmptyDataset, "plain", TRUE, TRUE, TRUE),
     Entry(<<>>, TRUE, TRUE, EmptyDataset, "none", TRUE, TRUE, TRUE),
     Entry(<<".", "d", "c", "m">>, TRUE, TRUE, SlashDataset, "plain", TRUE, FALSE, TRUE),
     Entry(<<".", "d", "c", "m">>, TRUE, TRUE, EmptyDataset, "plain", TRUE, TRUE, FALSE),
     Entry(<<".", "d", "c", "m">>, FALSE, TRUE, EmptyDataset, "plain", TRUE, TRUE, TRUE),
     Entry(<<".", "t", "x", "t">>, TRUE, TRUE, EmptyDataset, "plain", TRUE, TRUE, TRUE)}

SeqsUpTo(S, n) == UNION {[1..m -> S] : m \in 0..n}

(***************************************************************************)
(* find_dicoms_in_folder: the positions in the tree of the entries kept.   *)
(***************************************************************************)
DefaultExtensions == {<<".", "d", "c", "m">>, <<".", "d", "i", "c", "o", "m">>, <<>>}

RECURSIVE Keep(_, _, _)
Keep(t, k, allowed) ==
    IF k > Len(t) THEN <<>>
    ELSE IF t[k].is_file /\ Lower(t[k].suffix) \in allowed
         THEN <<k>> \o Keep(t, k + 1, allowed)
         ELSE Keep(t, k + 1, allowed)

find_dicoms_in_folder(folder, allowed_extensions) ==
    Keep(folder, 1,
         IF allowed_extensions.is_none THEN DefaultExtensions
         ELSE allowed_extensions.symbols)

(***************************************************************************)
(* save_dicom_file, on file k of the tree.  The result is the exception    *)
(* that leaves the call and the state it leaves behind.                    *)
(***************************************************************************)
Effect(e, sv, dr, dk, lg) == [exc |-> e, saves |-> sv, dirs |-> dr, disk |-> dk, log |-> lg]

Written(dk, path, k, raw) ==
    {f \in dk : f.path # path} \cup {[path |-> path, src |-> k, compressed |-> raw]}

save_dicom_file(t, k, file_path, decompress, sv, dr, dk, lg) ==
    LET e == t[k]
        made == dr \cup WithAncestors(Parent(file_path))
        failed == decompress /\ e.meta = "compressed" /\ ~e.decompress_ok
        lg1 == IF failed THEN Append(lg, [msg |-> "Warning", file |-> k]) ELSE lg
        raw == e.meta = "compressed" /\ (~decompress \/ failed)
    IN  IF ~e.mkdir_ok THEN Effect("OSError", sv, dr, dk, lg)
        ELSE IF decompress /\ e.meta = "none"
             THEN Effect("AttributeError", sv, made, dk, lg)
        ELSE IF e.save_ok
             THEN Effect("none", Append(sv, k), made, Written(dk, file_path, k, raw), lg1)
             ELSE Effect("none", Append(sv, k), made, dk,
                         Append(lg1, [msg |-> "Error", file |-> k]))

(***************************************************************************)
(* The body of the loop of sort_dicoms (lines 182-185) on file k.          *)
(***************************************************************************)
read_dicom_file(t, k) == IF t[k].readable THEN Return(t[k].dicom) ELSE Raise("ReadError")

Pipeline(t, k, dest, fstruct, nstruct, sv, dr, dk, lg) ==
    LET ds == read_dicom_file(t, k)
        file_path == create_path(ds.val, dest, fstruct, nstruct)
    IN  IF ds.exc # "none" THEN Effect(ds.exc, sv, dr, dk, lg)
        ELSE IF file_path.exc # "none" THEN Effect(file_path.exc, sv, dr, dk, lg)
        ELSE save_dicom_file(t, k, file_path.val, TRUE, sv, dr, dk, lg)

(***************************************************************************)
(* The sort_dicoms generator.  A step is one next() of the caller: it runs *)
(* the generator from where it stands to its next yield, its return or the *)
(* exception that leaves it.                                               *)
(***************************************************************************)
\* Line 174: `if not dicom_files`, taken to be never true.
NothingFoundNever(files) == FALSE

NothingFound(files) == files = <<>>

\* The loop of lines 181-186 from file n + 1 on, over `files`, counting from
\* `first`: the next file's pipeline and the yield after it, or the end of the
\* loop.  dest, fstruct and nstruct are the arguments of the sort_dicoms call.
Enumerate(files, n, dest, fstruct, nstruct, first) ==
    IF n >= Len(files)
    THEN /\ pc' = "finished"
         /\ UNCHANGED <<i, yielded, reads, saves, dirs, disk, log, exc>>
    ELSE LET k == files[n + 1]
             r == Pipeline(tree, k, dest, fstruct, nstruct, saves, dirs, disk, log)
         IN  /\ i' = n + 1
             /\ reads' = Append(reads, k)
             /\ saves' = r.saves
             /\ dirs' = r.dirs
             /\ disk' = r.disk
             /\ log' = r.log
             /\ exc' = r.exc
             /\ IF r.exc = "none"
                THEN /\ pc' = "suspended"
                     /\ yielded' = Append(yielded, <<n + first, Len(files)>>)
                ELSE pc' = "raised" /\ UNCHANGED yielded

\* enumerate(dicom_files) without start=1.
LoopFromZero(files, n, dest, fstruct, nstruct) ==
    Enumerate(files, n, dest, fstruct, nstruct, 0)

\* for i, dicom_file in enumerate(dicom_files, start=1)
Loop(files, n, dest, fstruct, nstruct) ==
    Enumerate(files, n, dest, fstruct, nstruct, 1)

\* The generator run from its start to its first yield (lines 171-186).
GenStart(dest, fstruct, nstruct) ==
    /\ pulls' = pulls + 1
    /\ LET files == find_dicoms_in_folder(tree, NoSymbols)
       IN  /\ dicom_files' = files
           /\ total' = Len(files)
           /\ IF NothingFound(files)
              THEN /\ yielded' = Append(yielded, <<0, 0>>)
                   /\ pc' = "suspended"
                   /\ i' = 0
                   /\ exc' = "none"
                   /\ UNCHANGED <<reads, saves, dirs, disk, log>>
              ELSE Loop(files, 0, dest, fstruct, nstruct)

\* The generator run on from the yield it is suspended at.
GenResume(dest, fstruct, nstruct) ==
    /\ pulls' = pulls + 1
    /\ IF NothingFound(dicom_files)
       THEN /\ pc' = "finished"
            /\ UNCHANGED <<i, yielded, reads, saves, dirs, disk, log, exc>>
       ELSE Loop(dicom_files, i, dest, fstruct, nstruct)
    /\ UNCHANGED <<dicom_files, total>>

\* The first next().
Start ==
    /\ pc = "created"
    /\ GenStart(destination_path, folder_structure, file_name_structure)
    /\ UNCHANGED <<tree, destination_path, folder_structure, file_name_structure>>
    /\ UNCHANGED <<vars_ct, vars_cp, vars_ff, vars_view>>

\* A later next().
Resume ==
    /\ pc = "suspended"
    /\ GenResume(destination_path, folder_structure, file_name_structure)
    /\ UNCHANGED <<tree, destination_path, folder_structure, file_name_structure>>
    /\ UNCHANGED <<vars_ct, vars_cp, vars_ff, vars_view>>

(***************************************************************************)
(* The inputs drawn and the three specifications: a run of the generator   *)
(* (Spec), calls of clean_text (SpecClean), calls of create_path           *)
(* (SpecPath).                                                             *)
(***************************************************************************)
Pending == [exc |-> "pending", val |-> <<>>]

CleanAlphabet == {"A", "a", "b", "_", "/"}
CleanTexts == {StrV(t) : t \in SeqsUpTo(CleanAlphabet, MaxTextLen)}
           \cup {IntV(3), FloatV(1, 0), NoneV}
SymbolSets == {Symbols(S) : S \in SUBSET {<<"A">>, <<"a">>, <<"_">>, <<"/">>, <<"a", "b">>}}
           \cup {NoSymbols}

Absent == [kind |-> "absent", chars |-> <<>>, num |-> 0, tenths |-> 0]

\* The dataset holding the given values, a field given as Absent left out.
Dataset(p, d, m, n, k, s, c) ==
    LET all == (PatientID :> p) @@ (StudyDate :> d) @@ (Modality :> m) @@
               (InstanceNumber :> n) @@ (KVP :> k) @@ (SliceThickness :> s) @@
               (ConvolutionKernel :> c)
    IN  [f \in {g \in TagNames : all[g] # Absent} |-> all[f]]

Datasets ==
    {Dataset(p, d, m, n, k, s, c) :
        p \in {Absent, NoneV, StrV(<<>>), StrV(<<"P", "1">>), StrV(<<"P", "/", "1">>)},
        d \in {Absent, StrV(<<"2", "0", "2", "4", "0", "1", "0", "1">>)},
        m \in {Absent, StrV(<<"C", "T">>)},
        n \in {Absent, IntV(3)},
        k \in {Absent, IntV(120)},
        s \in {Absent, FloatV(1, 0)},
        c \in {Absent, StrV(<<"S", "T", "A", "N", "D", "A", "R", "D">>)}}

Destinations == {ParsePath(<<"/", "d", "a", "t", "a", "/", "s", "o", "r", "t", "e", "d">>), ParsePath(<<"o", "u", "t">>)}

FolderStructures ==
    {NoneV, StrV(DefaultFolderStructure), StrV(<<"{", "S", "t", "u", "d", "y", "D", "a", "t", "e", "}">>),
     StrV(<<".", ".", "/", "{", "P", "a", "t", "i", "e", "n", "t", "I", "D", "}">>), StrV(<<"/", "a", "b", "s", "/", "{", "P", "a", "t", "i", "e", "n", "t", "I", "D", "}">>), StrV(<<"{", "P", "a", "t", "i", "e", "n", "t", "N", "a", "m", "e", "}">>)}

FileNameStructures ==
    {NoneV, StrV(<<"{", "I", "n", "s", "t", "a", "n", "c", "e", "N", "u", "m", "b", "e", "r", "}", ".", "d", "c", "m">>), StrV(<<"/", "{", "M", "o", "d", "a", "l", "i", "t", "y", "}">>),
     StrV(<<"{", "S", "e", "r", "i", "e", "s", "N", "u", "m", "b", "e", "r", "}", ".", "d", "c", "m">>)}

IdleClean ==
    /\ ct_text = NoneV
    /\ ct_forbidden = NoSymbols
    /\ ct_result = Pending
    /\ ct_again = Pending

IdlePath ==
    /\ cp_dicom = EmptyDataset
    /\ cp_destination = ParsePath(<<"o", "u", "t">>)
    /\ cp_folder = NoneV
    /\ cp_file = NoneV
    /\ cp_result = Pending

IdleFind ==
    /\ ff_folder = <<>>
    /\ ff_allowed = NoSymbols
    /\ ff_result = Pending

\* The window as _build_ui leaves it: the path fields as given, the structure
\* fields holding the defaults (lines 80-91), nothing started.
Built(src, dst) ==
    /\ source_entry = src
    /\ destination_entry = dst
    /\ folder_structure_entry = DefaultFolderStructure
    /\ file_structure_entry = DefaultFileNameStructure
    /\ progress_bars = <<>>
    /\ sort_done = <<>>
    /\ idle = 0
    /\ dialogs_open = 0
    /\ dialogs_shown = 0
    /\ warnings = 0
    /\ stale_pulls = 0
    /\ redundant_destroys = 0
    /\ callback_errors = 0

IdleView == Built(<<>>, <<>>)

\* The generator object as sort_dicoms(...) returns it: nothing has run.
Created ==
    /\ pc = "created"
    /\ dicom_files = <<>>
    /\ total = 0
    /\ i = 0
    /\ yielded = <<>>
    /\ pulls = 0
    /\ reads = <<>>
    /\ saves = <<>>
    /\ dirs = {}
    /\ disk = {}
    /\ log = <<>>
    /\ exc = "none"

IdleGen ==
    /\ tree = <<>>
    /\ destination_path = ParsePath(<<"o", "u", "t">>)
    /\ folder_structure = NoneV
    /\ file_name_structure = NoneV
    /\ Created

Init ==
    /\ tree \in SeqsUpTo(EntryKinds, MaxFiles)
    /\ destination_path \in Destinations
    /\ folder_structure \in {NoneV, StrV(<<"{", "P", "a", "t", "i", "e", "n", "t", "N", "a", "m", "e", "}", "/", "{", "S", "t", "u", "d", "y", "D", "a", "t", "e", "}">>)}
    /\ file_name_structure \in {NoneV, StrV(<<"{", "I", "n", "s", "t", "a", "n", "c", "e", "N", "u", "m", "b", "e", "r", "}", ".", "d", "c", "m">>)}
    /\ Created
    /\ IdleClean
    /\ IdlePath
    /\ IdleFind
    /\ IdleView

Next == Start \/ Resume

Spec == Init /\ [][Next]_vars

\* clean_text(ct_text, ct_forbidden)
CleanText ==
    /\ ct_result = Pending
    /\ ct_result' = clean_text(ct_text, ct_forbidden)
    /\ UNCHANGED <<ct_text, ct_forbidden, ct_again, vars_cp, vars_ff, vars_view, vars_gen>>

\* clean_text(clean_text(ct_text, ct_forbidden), ct_forbidden)
CleanAgain ==
    /\ ct_result.exc = "none"
    /\ ct_again = Pending
    /\ ct_again' = clean_text(StrV(ct_result.val), ct_forbidden)
    /\ UNCHANGED <<ct_text, ct_forbidden, ct_result, vars_cp, vars_ff, vars_view, vars_gen>>

InitClean ==
    /\ ct_text \in CleanTexts
    /\ ct_forbidden \in SymbolSets
    /\ ct_result = Pending
    /\ ct_again = Pending
    /\ IdlePath
    /\ IdleFind
    /\ IdleView
    /\ IdleGen

NextClean == CleanText \/ CleanAgain

SpecClean == InitClean /\ [][NextClean]_vars

\* create_path(cp_dicom, cp_destination, cp_folder, cp_file)
CreatePath ==
    /\ cp_result = Pending
    /\ cp_result' = create_path(cp_dicom, cp_destination, cp_folder, cp_file)
    /\ UNCHANGED <<cp_dicom, cp_destination, cp_folder, cp_file, vars_ct, vars_ff, vars_view,
                   vars_gen>>

InitPath ==
    /\ cp_dicom \in Datasets
    /\ cp_destination \in Destinations
    /\ cp_folder \in FolderStructures
    /\ cp_file \in FileNameStructures
    /\ cp_result = Pending
    /\ IdleClean
    /\ IdleFind
    /\ IdleView
    /\ IdleGen

NextPath == CreatePath

SpecPath == InitPath /\ [][NextPath]_vars

\* find_dicoms_in_folder(ff_folder, ff_allowed)
FindDicoms ==
    /\ ff_result = Pending
    /\ ff_result' = Return(find_dicoms_in_folder(ff_folder, ff_allowed))
    /\ UNCHANGED <<ff_folder, ff_allowed, vars_ct, vars_cp, vars_view, vars_gen>>

AllowLists ==
    {NoSymbols, Symbols({}), Symbols({<<".", "d", "c", "m">>}), Symbols({<<".", "D", "C", "M">>}),
     Symbols({<<".", "t", "x", "t">>, <<>>})}

InitFind ==
    /\ ff_folder \in SeqsUpTo(EntryKinds, MaxFiles)
    /\ ff_allowed \in AllowLists
    /\ ff_result = Pending
    /\ IdleClean
    /\ IdlePath
    /\ IdleView
    /\ IdleGen

NextFind == FindDicoms

SpecFind == InitFind /\ [][NextFind]_vars

(***************************************************************************)
(* MainView: the Start Sorting button, the idle callback that pulls the    *)
(* progress sequence, the completion dialog and the structure fields.      *)
(* The source field, when filled, names the folder whose entries are       *)
(* `tree`.  While a completion dialog is open it holds the grab, so the    *)
(* main window takes no input, but idle callbacks still run.               *)
(***************************************************************************)
vars_entries ==
    <<source_entry, destination_entry, folder_structure_entry, file_structure_entry>>

\* What follows next(self._progress_iteration) in _update_progress_bar (lines
\* 157-164), the generator standing at pc': after a yield the callback is
\* scheduled again; on StopIteration self._progress_bar is destroyed and the
\* completion dialog shown; any other exception leaves the handler.
\* `exhausted` tells that the generator had ended before this next().
AfterNext(bars, done, pending, exhausted) ==
    IF pc' = "suspended"
    THEN /\ progress_bars' = bars
         /\ sort_done' = done
         /\ idle' = pending + 1
         /\ UNCHANGED <<dialogs_open, dialogs_shown, redundant_destroys, callback_errors>>
    ELSE IF pc' = "raised" /\ ~exhausted
    THEN /\ progress_bars' = bars
         /\ sort_done' = done
         /\ idle' = pending
         /\ callback_errors' = callback_errors + 1
         /\ UNCHANGED <<dialogs_open, dialogs_shown, redundant_destroys>>
    ELSE /\ progress_bars' = [bars EXCEPT ![Len(bars)] = FALSE]
         /\ redundant_destroys' = redundant_destroys + (IF bars[Len(bars)] THEN 0 ELSE 1)
         /\ sort_done' = [done EXCEPT ![Len(done)] = TRUE]
         /\ idle' = pending
         /\ dialogs_open' = dialogs_open + 1
         /\ dialogs_shown' = dialogs_shown + 1
         /\ UNCHANGED callback_errors

\* _start_sorting_button_pressed (lines 135-152), the call of
\* _update_progress_bar at its end included.
StartSortingButtonPressed ==
    /\ dialogs_open = 0
    /\ Len(progress_bars) + warnings < MaxPresses
    /\ IF source_entry = <<>> \/ destination_entry = <<>>
       THEN /\ warnings' = warnings + 1
            /\ UNCHANGED <<progress_bars, sort_done, idle, dialogs_open, dialogs_shown,
                           stale_pulls, redundant_destroys, callback_errors, vars_gen>>
       ELSE /\ destination_path' = ParsePath(destination_entry)
            /\ folder_structure' = NoneV
            /\ file_name_structure' = NoneV
            /\ GenStart(ParsePath(destination_entry), NoneV, NoneV)
            /\ AfterNext(Append(progress_bars, TRUE), Append(sort_done, FALSE), idle, FALSE)
            /\ UNCHANGED <<tree, warnings, stale_pulls>>
    /\ UNCHANGED <<vars_entries, vars_ct, vars_cp, vars_ff>>

\* _update_progress_bar (lines 154-164), run as an after_idle callback.
UpdateProgressBar ==
    /\ idle > 0
    /\ IF pc = "suspended"
       THEN /\ GenResume(destination_path, folder_structure, file_name_structure)
            /\ UNCHANGED stale_pulls
       ELSE /\ pulls' = pulls + 1
            /\ stale_pulls' = stale_pulls + 1
            /\ UNCHANGED <<pc, dicom_files, total, i, yielded, reads, saves, dirs, disk,
                           log, exc>>
    /\ AfterNext(progress_bars, sort_done, idle - 1, pc # "suspended")
    /\ UNCHANGED <<tree, destination_path, folder_structure, file_name_structure, warnings>>
    /\ UNCHANGED <<vars_entries, vars_ct, vars_cp, vars_ff>>

\* The Ok button of the completion dialog (line 183).
CloseDialog ==
    /\ dialogs_open > 0
    /\ dialogs_open' = dialogs_open - 1
    /\ UNCHANGED <<vars_entries, progress_bars, sort_done, idle, dialogs_shown, warnings,
                   stale_pulls, redundant_destroys, callback_errors>>
    /\ UNCHANGED <<vars_ct, vars_cp, vars_ff, vars_gen>>

StructureTexts ==
    {DefaultFolderStructure, DefaultFileNameStructure, <<"{", "S", "t", "u", "d", "y", "D", "a", "t", "e", "}">>,
     <<"{", "I", "n", "s", "t", "a", "n", "c", "e", "N", "u", "m", "b", "e", "r", "}", ".", "d", "c", "m">>}

\* The user types in the folder name structure field.
EditFolderStructure ==
    /\ dialogs_open = 0
    /\ \E t \in StructureTexts \ {folder_structure_entry} : folder_structure_entry' = t
    /\ UNCHANGED <<source_entry, destination_entry, file_structure_entry, progress_bars,
                   sort_done, idle, dialogs_open, dialogs_shown, warnings, stale_pulls,
                   redundant_destroys, callback_errors>>
    /\ UNCHANGED <<vars_ct, vars_cp, vars_ff, vars_gen>>

\* The user types in the file name structure field.
EditFileStructure ==
    /\ dialogs_open = 0
    /\ \E t \in StructureTexts \ {file_structure_entry} : file_structure_entry' = t
    /\ UNCHANGED <<source_entry, destination_entry, folder_structure_entry, progress_bars,
                   sort_done, idle, dialogs_open, dialogs_shown, warnings, stale_pulls,
                   redundant_destroys, callback_errors>>
    /\ UNCHANGED <<vars_ct, vars_cp, vars_ff, vars_gen>>

\* _default_button_pressed (lines 116-133)
DefaultButtonPressed ==
    /\ dialogs_open = 0
    /\ \E kind \in {"file", "folder"} :
           IF kind = "file"
           THEN /\ file_structure_entry # DefaultFileNameStructure
                /\ file_structure_entry' = DefaultFileNameStructure
                /\ UNCHANGED folder_structure_entry
           ELSE /\ folder_structure_entry # DefaultFolderStructure
                /\ folder_structure_entry' = DefaultFolderStructure
                /\ UNCHANGED file_structure_entry
    /\ UNCHANGED <<source_entry, destination_entry, progress_bars, sort_done, idle,
                   dialogs_open, dialogs_shown, warnings, stale_pulls, redundant_destroys,
                   callback_errors>>
    /\ UNCHANGED <<vars_ct, vars_cp, vars_ff, vars_gen>>

ViewEntryKinds == {e \in EntryKinds : e.suffix \in {<<".", "d", "c", "m">>, <<".", "t", "x", "t">>}}

InitView ==
    /\ tree \in SeqsUpTo(ViewEntryKinds, MaxFiles)
    /\ \E src \in {<<>>, <<"s", "c", "a", "n", "s">>}, dst \in {<<>>, <<"o", "u", "t">>} : Built(src, dst)
    /\ destination_path = ParsePath(<<"o", "u", "t">>)
    /\ folder_structure = NoneV
    /\ file_name_structure = NoneV
    /\ Created
    /\ IdleClean
    /\ IdlePath
    /\ IdleFind

NextView ==
    \/ StartSortingButtonPressed
    \/ UpdateProgressBar
    \/ CloseDialog
    \/ EditFolderStructure
    \/ EditFileStructure
    \/ DefaultButtonPressed

SpecView == InitView /\ [][NextView]_vars

(***************************************************************************)
(* Notions the properties below are stated with.                           *)
(***************************************************************************)
\* The files discovery finds in the tree the run started from.
Found == find_dicoms_in_folder(tree, NoSymbols)

Terminated == pc \in {"finished", "raised"}

\* File k's pass through read, create_path and save_dicom_file raises.
PipelineRaises(k) ==
    Pipeline(tree, k, destination_path, folder_structure, file_name_structure,
             <<>>, {}, {}, <<>>).exc # "none"

\* File k is read and its destination path is rendered without an exception.
Rendered(k) ==
    /\ tree[k].readable
    /\ create_path(tree[k].dicom, destination_path, folder_structure,
                   file_name_structure).exc = "none"

\* A template names a placeholder that is none of the seven supported fields.
UnsupportedPlaceholder ==
    create_path(EmptyDataset, destination_path, folder_structure,
                file_name_structure).exc = "KeyError"

\* Both templates render: they are well formed and name supported fields only.
TemplatesRender ==
    create_path(EmptyDataset, destination_path, folder_structure,
                file_name_structure).exc = "none"

\* The set of forbidden symbols a clean_text call works with.
Effective(f) == IF f.is_none THEN DefaultForbidden ELSE f.symbols

SingleCharacters(F) == \A s \in F : Len(s) = 1

\* No character outside F has its lower-case form in F.
ClosedUnderLower(F) ==
    \A c \in Range(UpperChars) : <<c>> \notin F => <<LowerChar(c)>> \notin F

\* The text holds no character of F and no upper-case character.
Clean(text, F) == \A k \in DOMAIN text : <<text[k]>> \notin F /\ ~IsUpper(text[k])

\* path lies under root: root's segments are a prefix of path's.
IsUnder(path, root) ==
    /\ path.anchor = root.anchor
    /\ Len(path.parts) >= Len(root.parts)
    /\ SubSeq(path.parts, 1, Len(root.parts)) = root.parts

\* The segments of path below root.
Below(path, root) == SubSeq(path.parts, Len(root.parts) + 1, Len(path.parts))

\* create_path was called on the scenario's record with the default templates.
ScenarioRendered ==
    /\ cp_dicom = ScenarioDataset
    /\ cp_folder \in {NoneV, StrV(DefaultFolderStructure)}
    /\ cp_file \in {NoneV, StrV(DefaultFileNameStructure)}
    /\ cp_result # Pending

(***************************************************************************)
(* C1: with N >= 1 files discovered, a run pulled to its end has yielded   *)
(* exactly (1,N), (2,N), ..., (N,N); every value yielded has               *)
(* 0 <= index <= total, total the number of files discovered.  Stated for  *)
(* runs whose templates render, so that only the files decide it.          *)
(***************************************************************************)
C1_ProgressSequence ==
    /\ \A n \in DOMAIN yielded :
           /\ 0 <= yielded[n][1]
           /\ yielded[n][1] <= yielded[n][2]
           /\ yielded[n][2] = Len(Found)
    /\ (Terminated /\ Len(Found) >= 1 /\ TemplatesRender) =>
           yielded = [n \in 1..Len(Found) |-> <<n, Len(Found)>>]

(***************************************************************************)
(* C2: a file whose pipeline raises does not stop the run: no exception    *)
(* leaves the generator on it, progress (n, N) is yielded for it, and a    *)
(* finished run has yielded N values.  Stated for runs whose templates     *)
(* render, so that the failure is the file's own.                          *)
(***************************************************************************)
C2_FailureContained ==
    /\ \A n \in 1..i :
           (TemplatesRender /\ PipelineRaises(dicom_files[n])) =>
               /\ ~(pc = "raised" /\ i = n)
               /\ Len(yielded) >= n
               /\ yielded[n] = <<n, total>>
    /\ (Terminated /\ Len(Found) >= 1 /\ TemplatesRender) =>
           Len(yielded) = Len(Found)

(***************************************************************************)
(* C3: when discovery finds no file, the first pull yields (0,0) and the   *)
(* second ends the sequence with no further value; no file is read and     *)
(* nothing is created or written under the destination.                    *)
(***************************************************************************)
C3_EmptyDiscovery ==
    (pc # "created" /\ Found = <<>>) =>
        /\ yielded = << <<0, 0>> >>
        /\ pc = (IF pulls = 1 THEN "suspended" ELSE "finished")
        /\ pulls <= 2
        /\ exc = "none"
        /\ reads = <<>>
        /\ saves = <<>>
        /\ dirs = {}
        /\ disk = {}

C3_Witness ==
    /\ pc = "finished"
    /\ Len(tree) >= 2
    /\ Found = <<>>
    /\ yielded = << <<0, 0>> >>
    /\ UnsupportedPlaceholder

(***************************************************************************)
(* C4 as the spec states it: the scenario's record is rendered, with the   *)
(* default templates, to                                                   *)
(* p1/20240101/120/1.0/standard/ct_3_120_1.0_standard.dcm below the        *)
(* destination root.                                                       *)
(***************************************************************************)
C4_ScenarioPathDotted ==
    ScenarioRendered =>
        /\ cp_result.exc = "none"
        /\ IsUnder(cp_result.val, cp_destination)
        /\ Below(cp_result.val, cp_destination) =
               <<<<"p", "1">>, <<"2", "0", "2", "4", "0", "1", "0", "1">>, <<"1", "2", "0">>, <<"1", ".", "0">>, <<"s", "t", "a", "n", "d", "a", "r", "d">>,
                 <<"c", "t", "_", "3", "_", "1", "2", "0", "_", "1", ".", "0", "_", "s", "t", "a", "n", "d", "a", "r", "d", ".", "d", "c", "m">>>>

(***************************************************************************)
(* C4 amended: the scenario's record is rendered, with the default         *)
(* templates, to p1/20240101/120/1_0/standard/ct_3_120_1_0_standard.dcm    *)
(* below the destination root: the dot of 1.0 is a forbidden symbol.       *)
(***************************************************************************)
C4_ScenarioPath ==
    ScenarioRendered =>
        /\ cp_result.exc = "none"
        /\ IsUnder(cp_result.val, cp_destination)
        /\ Below(cp_result.val, cp_destination) =
               <<<<"p", "1">>, <<"2", "0", "2", "4", "0", "1", "0", "1">>, <<"1", "2", "0">>, <<"1", "_", "0">>, <<"s", "t", "a", "n", "d", "a", "r", "d">>,
                 <<"c", "t", "_", "3", "_", "1", "2", "0", "_", "1", "_", "0", "_", "s", "t", "a", "n", "d", "a", "r", "d", ".", "d", "c", "m">>>>

C4_Witness ==
    /\ ScenarioRendered
    /\ cp_folder = NoneV
    /\ cp_file = NoneV
    /\ cp_destination = ParsePath(<<"/", "d", "a", "t", "a", "/", "s", "o", "r", "t", "e", "d">>)
    /\ cp_result.exc = "none"
    /\ Len(cp_result.val.parts) = 8

(***************************************************************************)
(* C5 as the spec states it: for every text and every set F of forbidden   *)
(* characters clean_text returns normally, and its result holds no         *)
(* character of F and no upper-case character.                             *)
(***************************************************************************)
C5_CleanForEverySet ==
    (ct_result # Pending /\ SingleCharacters(Effective(ct_forbidden))) =>
        /\ ct_result.exc = "none"
        /\ Clean(ct_result.val, Effective(ct_forbidden))

(***************************************************************************)
(* C5 amended: for every text and every set F of single characters that    *)
(* holds no underscore and no lower-case form of a character outside F,    *)
(* clean_text returns normally, and its result holds no character of F     *)
(* and no upper-case character.                                            *)
(***************************************************************************)
C5_CleanForPlainSets ==
    LET F == Effective(ct_forbidden)
    IN  (/\ ct_result # Pending
         /\ SingleCharacters(F)
         /\ <<"_">> \notin F
         /\ ClosedUnderLower(F)) =>
            /\ ct_result.exc = "none"
            /\ Clean(ct_result.val, F)

C5_Witness ==
    /\ ct_text = StrV(<<"A", "/", "b">>)
    /\ ct_forbidden = Symbols({<<"/">>, <<"A">>})
    /\ ct_result = Return(<<"_", "_", "b">>)

(***************************************************************************)
(* C6 as the spec states it: for every text and every set of forbidden     *)
(* symbols, cleaning the cleaned text again gives the cleaned text.        *)
(***************************************************************************)
C6_IdempotentForEverySet ==
    ct_again # Pending => ct_again = ct_result

(***************************************************************************)
(* C6 amended: for every text and every set F of forbidden symbols that    *)
(* holds no lower-case form of a character outside F, cleaning the cleaned *)
(* text again gives the cleaned text.                                      *)
(***************************************************************************)
C6_IdempotentForClosedSets ==
    (ct_again # Pending /\ ClosedUnderLower(Effective(ct_forbidden))) =>
        ct_again = ct_result

C6_Witness ==
    /\ ct_text = StrV(<<"A", "/", "_">>)
    /\ ct_forbidden = Symbols({<<"/">>, <<"_">>})
    /\ ct_result = Return(<<"a", "_", "_">>)
    /\ ct_again = Return(<<"a", "_", "_">>)

(***************************************************************************)
(* C7: a file whose destination cannot be created or written (the mkdir    *)
(* of the parent or save_as fails) still gets its progress value, and no   *)
(* exception leaves the generator on it.                                   *)
(***************************************************************************)
C7_WriteFailureRecovered ==
    \A n \in 1..i :
        LET e == tree[dicom_files[n]]
        IN  (/\ Rendered(dicom_files[n])
             /\ (~e.mkdir_ok \/ (~e.save_ok /\ e.meta # "none"))) =>
                /\ ~(pc = "raised" /\ i = n)
                /\ Len(yielded) >= n
                /\ yielded[n] = <<n, total>>

(***************************************************************************)
(* C8: for a file whose content is marked compressed and fails to          *)
(* decompress, and for a file with no transfer-syntax indicator, save_as   *)
(* is still reached; the failed decompression is reported.                 *)
(***************************************************************************)
C8_WriteStillAttempted ==
    \A n \in 1..i :
        LET k == dicom_files[n]
            e == tree[k]
        IN  (Rendered(k) /\ e.mkdir_ok) =>
                /\ (e.meta = "compressed" /\ ~e.decompress_ok) =>
                       /\ k \in Range(saves)
                       /\ [msg |-> "Warning", file |-> k] \in Range(log)
                /\ e.meta = "none" => k \in Range(saves)

(***************************************************************************)
(* C9: with a template that names an unsupported placeholder, the run      *)
(* ends in the error at its first pull, whatever the number of files       *)
(* discovered, and before it no file is read, nothing is created or        *)
(* written and no progress value is yielded.                               *)
(***************************************************************************)
C9_TemplateErrorUpFront ==
    UnsupportedPlaceholder =>
        /\ reads = <<>>
        /\ yielded = <<>>
        /\ dirs = {}
        /\ disk = {}
        /\ pc # "created" => (pc = "raised" /\ exc = "KeyError")

(***************************************************************************)
(* C10: for every record, destination root and pair of templates, the      *)
(* path create_path returns lies under the destination root.               *)
(***************************************************************************)
C10_UnderDestination ==
    (cp_result # Pending /\ cp_result.exc = "none") =>
        IsUnder(cp_result.val, cp_destination)

(***************************************************************************)
(* Notions for the properties of create_path's placeholders.               *)
(***************************************************************************)
\* The record without the field n.
Without(dicom, n) == [f \in DOMAIN dicom \ {n} |-> dicom[f]]

\* The names between braces in a template without escaped braces.
Placeholders(t) ==
    {SubSeq(t, a + 1, FirstClose(t, a) - 1) :
        a \in {b \in DOMAIN t : t[b] = "{" /\ FirstClose(t, b) # 0}}

FolderTemplate == IF cp_folder = NoneV THEN DefaultFolderStructure ELSE cp_folder.chars
FileTemplate == IF cp_file = NoneV THEN DefaultFileNameStructure ELSE cp_file.chars

OnlySupportedPlaceholders ==
    Placeholders(FolderTemplate) \cup Placeholders(FileTemplate) \subseteq TagNames

(***************************************************************************)
(* C11: a field present with the value None is rendered as an absent field *)
(* is, and that text is "NA" itself: None is taken for "NA" before         *)
(* cleaning and cleaning leaves "NA" as it is.                             *)
(***************************************************************************)
C11_NoneRendersAsNA ==
    (/\ cp_result # Pending
     /\ cp_result.exc = "none"
     /\ PatientID \in DOMAIN cp_dicom
     /\ cp_dicom[PatientID] = NoneV) =>
        /\ Tags(cp_dicom)[PatientID] = <<"N", "A">>
        /\ cp_result = create_path(Without(cp_dicom, PatientID), cp_destination,
                                   cp_folder, cp_file)

(***************************************************************************)
(* C12: whatever fields the record lacks, all seven placeholders are       *)
(* populated, an absent field's placeholder holds the cleaned "NA"         *)
(* sentinel (the text na), and templates that name supported fields only   *)
(* render without a missing key.                                           *)
(***************************************************************************)
C12_AbsentFieldsRenderSentinel ==
    cp_result # Pending =>
        /\ DOMAIN Tags(cp_dicom) = TagNames
        /\ \A n \in TagNames \ DOMAIN cp_dicom : Tags(cp_dicom)[n] = <<"n", "a">>
        /\ OnlySupportedPlaceholders => cp_result.exc = "none"
        /\ (DOMAIN cp_dicom = {} /\ cp_folder = NoneV /\ cp_file = NoneV) =>
               Below(cp_result.val, cp_destination) =
                   <<<<"n", "a">>, <<"n", "a">>, <<"n", "a">>, <<"n", "a">>, <<"n", "a">>, <<"n", "a", "_", "n", "a", "_", "n", "a", "_", "n", "a", "_", "n", "a", ".", "d", "c", "m">>>>
        /\ (StudyDate \notin DOMAIN cp_dicom /\ cp_folder = StrV(<<"{", "S", "t", "u", "d", "y", "D", "a", "t", "e", "}">>)
                /\ cp_result.exc = "none" /\ IsUnder(cp_result.val, cp_destination)) =>
               Below(cp_result.val, cp_destination)[1] = <<"n", "a">>

C12_Witness ==
    /\ DOMAIN cp_dicom = {Modality, KVP}
    /\ cp_folder = NoneV
    /\ cp_file = NoneV
    /\ cp_result.exc = "none"
    /\ Below(cp_result.val, cp_destination) =
           <<<<"n", "a">>, <<"n", "a">>, <<"1", "2", "0">>, <<"n", "a">>, <<"n", "a">>, <<"c", "t", "_", "n", "a", "_", "1", "2", "0", "_", "n", "a", "_", "n", "a", ".", "d", "c", "m">>>>

(***************************************************************************)
(* C15: a separator in a field value is rendered as an underscore (P/1 as  *)
(* p_1), and the number of segments below the destination root depends on  *)
(* the templates alone: it is the same for every record.  Stated for the  *)
(* default templates.                                                      *)
(***************************************************************************)
C15_SegmentsFromTemplatesAlone ==
    (/\ cp_result # Pending
     /\ cp_result.exc = "none"
     /\ cp_folder = NoneV
     /\ cp_file = NoneV) =>
        /\ (PatientID \in DOMAIN cp_dicom /\ cp_dicom[PatientID] = StrV(<<"P", "/", "1">>)) =>
               Below(cp_result.val, cp_destination)[1] = <<"p", "_", "1">>
        /\ Len(Below(cp_result.val, cp_destination)) =
               Len(Below(create_path(EmptyDataset, cp_destination, cp_folder,
                                     cp_file).val, cp_destination))

(***************************************************************************)
(* Notions for the properties of a suspended run.                          *)
(***************************************************************************)
\* The destination path file k of the tree is rendered to.
Target(k) ==
    create_path(tree[k].dicom, destination_path, folder_structure,
                file_name_structure).val

\* The files the loop has taken up so far.
TakenUp == SubSeq(dicom_files, 1, i)

\* The run stands at the yield of (i, total), i >= 1.
AtYield == pc = "suspended" /\ total >= 1

\* One pull per file: i pulls have read and handed to save_as exactly the
\* first i files found, yielded (1, total) .. (i, total), and left on disk only
\* what they wrote.
OneFilePerPull ==
    /\ pulls = i
    /\ yielded = [n \in 1..i |-> <<n, total>>]
    /\ reads = TakenUp
    /\ saves = TakenUp
    /\ \A f \in disk : f.src \in Range(TakenUp)
    /\ dirs = UNION {WithAncestors(Parent(Target(k))) : k \in Range(TakenUp)}

(***************************************************************************)
(* C13 as the spec states it: when (i, total) is yielded, one pull per     *)
(* file has processed exactly the first i files found and none beyond, and *)
(* each of the first i files is materialized: a file stands at its         *)
(* destination path.                                                       *)
(***************************************************************************)
C13_FirstFilesMaterialized ==
    AtYield =>
        /\ OneFilePerPull
        /\ \A k \in Range(TakenUp) : \E f \in disk : f.path = Target(k)

(***************************************************************************)
(* C13 amended: when (i, total) is yielded, one pull per file has          *)
(* processed exactly the first i files found and none beyond: each was     *)
(* read, rendered and handed to save_as, and a file stands at its          *)
(* destination path unless its save_as failed (which is reported).         *)
(***************************************************************************)
C13_FirstFilesProcessed ==
    AtYield =>
        /\ OneFilePerPull
        /\ \A k \in Range(TakenUp) :
               IF tree[k].save_ok
               THEN \E f \in disk : f.path = Target(k)
               ELSE [msg |-> "Error", file |-> k] \in Range(log)

C13_Witness ==
    /\ AtYield
    /\ i = 2
    /\ total = 3
    /\ Cardinality(disk) = 2
    /\ yielded = << <<1, 3>>, <<2, 3>> >>

(***************************************************************************)
(* C16: find_dicoms_in_folder returns exactly the regular files whose      *)
(* suffix matches a member of the allow-list without regard to case, the   *)
(* allow-list being .dcm, .dicom and the empty suffix when none is given;  *)
(* sort_dicoms processes exactly the files of that default.                *)
(***************************************************************************)
C16_FindMatchesIgnoringCase ==
    LET allowed == IF ff_allowed.is_none THEN {<<".", "d", "c", "m">>, <<".", "d", "i", "c", "o", "m">>, <<>>}
                   ELSE ff_allowed.symbols
    IN  /\ ff_result # Pending =>
               /\ ff_result.exc = "none"
               /\ Range(ff_result.val) =
                      {k \in DOMAIN ff_folder :
                          /\ ff_folder[k].is_file
                          /\ \E a \in allowed : Lower(a) = Lower(ff_folder[k].suffix)}
        /\ pc # "created" =>
               Range(dicom_files) =
                   {k \in DOMAIN tree :
                       /\ tree[k].is_file
                       /\ Lower(tree[k].suffix) \in {<<".", "d", "c", "m">>, <<".", "d", "i", "c", "o", "m">>, <<>>}}

(***************************************************************************)
(* Notions for the properties of the main window.                          *)
(***************************************************************************)
\* The template a sort renders with, given the argument it was passed.
TemplateUsed(arg, default) == IF arg = NoneV THEN default ELSE arg.chars

\* No file found in the tree makes the pipeline raise.
NoFileRaises == \A k \in Range(Found) : ~PipelineRaises(k)

(***************************************************************************)
(* C14: the texts the folder and file name structure fields hold when      *)
(* Start Sorting is pressed are the templates the sort started by that     *)
(* press renders with.                                                     *)
(***************************************************************************)
C14_FieldsAreTheTemplates ==
    [][Len(progress_bars') > Len(progress_bars) =>
           /\ TemplateUsed(folder_structure', DefaultFolderStructure) =
                  folder_structure_entry
           /\ TemplateUsed(file_name_structure', DefaultFileNameStructure) =
                  file_structure_entry]_vars

(***************************************************************************)
(* C17: however presses of Start Sorting and idle callbacks interleave,    *)
(* no callback pulls from an exhausted sequence or destroys a destroyed    *)
(* bar, each completed sort has shown the completion dialog exactly once,  *)
(* and once no callback is pending every sort started has been pulled to   *)
(* its end and no progress bar is left.  Stated for trees on which no      *)
(* file's pipeline raises.                                                 *)
(***************************************************************************)
C17_EverySortCompletesOnce ==
    NoFileRaises =>
        /\ stale_pulls = 0
        /\ redundant_destroys = 0
        /\ dialogs_shown = Cardinality({n \in DOMAIN sort_done : sort_done[n]})
        /\ idle = 0 =>
               \A n \in DOMAIN progress_bars : sort_done[n] /\ ~progress_bars[n]

=============================================================================
